---- MODULE Spec2Model ----
(***************************************************************************)
(* Model of the inode storage engine of rustfs2 (src/rustfs2/src/inode.rs):*)
(* the inode codec (read_inode / write_inode), the block address resolver  *)
(* (get_or_alloc_page / get_page) and the byte-range engine (write / read).*)
(*                                                                         *)
(* Sizes are scaled down so that the state space is finite and small: the  *)
(* source's 8-byte fields are EntryWidth bytes wide, a block is BLOCK_SIZE *)
(* bytes.  The layout arithmetic is the source's, with these widths.       *)
(*                                                                         *)
(* The device is keyed by the number the code passes as the second         *)
(* argument of device.read / device.write; one whole block is stored per   *)
(* such number.  A block never written reads as zeroes.                    *)
(***************************************************************************)
EXTENDS Integers, Sequences, FiniteSets, TLC

\* ---------------------------------------------------------------- bounds
NumInodes == 2          \* inode numbers 0 .. NumInodes-1
MaxOps    == 2          \* operations per behaviour
MaxOffset == 17         \* byte offsets 0 .. MaxOffset
MaxLen    == 10         \* buffer lengths 0 .. MaxLen
MaxPage   == 4          \* logical pages 0 .. MaxPage handed to the resolver
MaxField  == 2          \* field values 0 .. MaxField of the inodes given to the codec
MaxOpens  == 2          \* calls of FS::open per behaviour
MaxFault  == 3          \* a failing device transfer is one of the first MaxFault of a call
FaultMaxOffset == 8     \* offsets 0 .. FaultMaxOffset of the calls on a failing device
FaultMaxLen == 4        \* lengths 0 .. FaultMaxLen of the calls on a failing device
RaceMaxOffset == 8      \* offsets 0 .. RaceMaxOffset of the writes in flight together
RaceMaxLen == 2         \* lengths 0 .. RaceMaxLen of the writes in flight together

\* ------------------------------------------------- constants of the code
BLOCK_SIZE == 8         \* crate::constants::BLOCK_SIZE (scaled)
INODE_SIZE == 4         \* crate::constants::INODE_SIZE (scaled: 4 fields)
LIST_SIZE  == 2         \* crate::constants::LIST_SIZE (scaled)
EntryWidth == 1         \* width in bytes of one on-disk integer (8 in the source)
ByteBase   == 256       \* values of one u8
inode_base == 8         \* fs_internal.inode_base
data_base  == 32        \* fs_internal.data_base
DIR_TYPE   == 0
FILE_TYPE  == 1

VARIABLES
  dev,       \* device: address |-> block, only the non-zero blocks are kept
  mem,       \* the in-memory Inode object of each inode number
  nextFree,  \* Block Allocator: the next block number it hands out
  last,      \* the last operation: its inputs, its outcome, its device trace
  nops,      \* number of operations done
  srv,       \* the two servers: where each is in its accept loop, what it handled
  sock,      \* per server socket: the connections waiting to be accepted
  cli,       \* where the caller of FS::shutdown is
  opens,     \* number of FS::open calls made
  conv,      \* a call of convert: its arguments and, once made, its outcome
  tasks      \* the two operations in flight together, each between two awaits

ivars == <<dev, mem, nextFree, last, nops>>
fsvars == <<srv, sock, cli, opens>>
vars == <<dev, mem, nextFree, last, nops, srv, sock, cli, opens, conv, tasks>>

Inums == 0 .. (NumInodes - 1)

\* ------------------------------------------------------------- Option<usize>
None == <<>>
Some(v) == <<v>>
IsNone(o) == o = <<>>
Unwrap(o) == o[1]

Max(a, b) == IF a < b THEN b ELSE a

\* F applied to the value of v, v being evaluated once
Bind(v, F(_)) == CHOOSE r \in {F(x) : x \in {v}} : TRUE

ceil_div_floor(x, y) == x \div y

\* fn ceil_div(x, y)
ceil_div(x, y) == (x + y - 1) \div y

\* ------------------------------------------------------------------ bytes
RECURSIVE Pow(_, _)
Pow(b, k) == IF k = 0 THEN 1 ELSE b * Pow(b, k - 1)

\* mem::transmute::<usize, [u8; 8]>: the bytes of v, least significant first
ToBytes(v) == [k \in 1 .. EntryWidth |-> (v \div Pow(ByteBase, k - 1)) % ByteBase]

RECURSIVE FromBytesAt(_, _)
FromBytesAt(b, k) ==
  IF k > Len(b) THEN 0 ELSE b[k] * Pow(ByteBase, k - 1) + FromBytesAt(b, k + 1)

\* mem::transmute::<[u8; 8], usize>
FromBytes(b) == FromBytesAt(b, 1)

\* array_ref![content, at, 8]
Field(content, at) == SubSeq(content, at + 1, at + EntryWidth)

\* buf with the bytes from position `at` (0-based) on replaced by `bytes`
Overlay(buf, at, bytes) ==
  [k \in 1 .. Len(buf) |->
     IF k > at /\ k <= at + Len(bytes) THEN bytes[k - at] ELSE buf[k]]

ZeroBlock == [k \in 1 .. BLOCK_SIZE |-> 0]

\* ----------------------------------------------------------------- device
\* fs.device.read(&mut buf, addr, BLOCK_SIZE)
DevRead(d, addr) == IF addr \in DOMAIN d THEN d[addr] ELSE ZeroBlock

\* fs.device.write(&buf, addr, BLOCK_SIZE)
DevWrite(d, addr, blk) ==
  IF blk = ZeroBlock
  THEN [a \in DOMAIN d \ {addr} |-> d[a]]
  ELSE [a \in DOMAIN d \cup {addr} |-> IF a = addr THEN blk ELSE d[a]]

\* Inode::new(dirtype, inum)
NewInode(dirtype) ==
  [dirtype |-> dirtype, size |-> 0, single |-> None, double |-> None]

\* The running state of one call: device, the Inode object (self), the
\* allocator, the device/allocator events so far, the panic (if any), and
\* the value the last resolver call returned.
\* ios counts the device transfers issued so far; the transfer number `fail`
\* of the call fails (0: none does).
Ctx(d, ino, nf) ==
  [dev |-> d, ino |-> ino, next |-> nf, tr |-> <<>>, err |-> "",
   page |-> 0, ret |-> 0, out |-> <<>>, ios |-> 0, fail |-> 0, buf |-> <<>>]

FaultyCtx(d, ino, nf, k) == [Ctx(d, ino, nf) EXCEPT !.fail = k]

Panic(st, kind) == [st EXCEPT !.err = kind]
Ev(st, e) ==
  [st EXCEPT !.tr = Append(@, e),
             !.ios = IF e[1] \in {"rd", "wr"} THEN @ + 1 ELSE @]

\* the transfer about to be issued is the failing one
Fails(st) == st.fail = st.ios + 1

\* await!(fs.device.read(&mut buf, addr, BLOCK_SIZE)), result not looked at:
\* a failed read leaves the dma_zmalloc'ed buffer as it was
Fetch(st, addr) == IF Fails(st) THEN ZeroBlock ELSE DevRead(st.dev, addr)

\* await!(fs.device.write(&buf, addr, BLOCK_SIZE)), result not looked at:
\* a failed write leaves the device as it was
Store(st, addr, blk) == IF Fails(st) THEN st.dev ELSE DevWrite(st.dev, addr, blk)

\* ------------------------------------------------------------ inode codec
\* let offset = fs.inode_base + self.inum * INODE_SIZE; blk; blk_offset
InodeOffset(inum) == inode_base + inum * INODE_SIZE
InodeBlk(inum) == InodeOffset(inum) \div BLOCK_SIZE
InodeBlkOffset(inum) == InodeOffset(inum) % BLOCK_SIZE

\* The four fields of a record, as read_inode decodes them: both pointers
\* always come back as Some(..), whatever the bytes are.
Decode(content) ==
  [dirtype |-> FromBytes(Field(content, 0)),
   size    |-> FromBytes(Field(content, EntryWidth)),
   single  |-> Some(FromBytes(Field(content, 2 * EntryWidth))),
   double  |-> Some(FromBytes(Field(content, 3 * EntryWidth)))]

\* The record bytes write_inode builds over `content`; the caller has
\* checked that both pointers are set (unwrap).
Encode(ino, content) ==
  Overlay(Overlay(Overlay(Overlay(content,
    0, ToBytes(ino.dirtype)),
    EntryWidth, ToBytes(ino.size)),
    2 * EntryWidth, ToBytes(Unwrap(ino.single))),
    3 * EntryWidth, ToBytes(Unwrap(ino.double)))

\* async fn read_inode(&self)
read_inode(st, inum) ==
  LET blk == InodeBlk(inum)
      bo  == InodeBlkOffset(inum)
      buf == Fetch(st, blk)
      s1  == Ev(st, <<"rd", blk>>)
  IN IF bo + INODE_SIZE > BLOCK_SIZE
     THEN Panic(s1, "SliceOutOfRange")
     ELSE [s1 EXCEPT !.ino = Decode(SubSeq(buf, bo + 1, bo + INODE_SIZE))]

\* write_inode up to its device write: the block of the record is read and
\* the fields of self are laid over it
write_inode_read(st, inum) ==
  LET blk == InodeBlk(inum)
      bo  == InodeBlkOffset(inum)
      buf == Fetch(st, blk)
      s1  == Ev(st, <<"rd", blk>>)
  IN IF bo + INODE_SIZE > BLOCK_SIZE
     THEN Panic(s1, "SliceOutOfRange")
     ELSE IF IsNone(st.ino.single) \/ IsNone(st.ino.double)
     THEN Panic(s1, "UnwrapNone")
     ELSE LET content == SubSeq(buf, bo + 1, bo + INODE_SIZE)
          IN [s1 EXCEPT !.buf = Overlay(buf, bo, Encode(st.ino, content))]

\* the device write that ends write_inode
write_inode_store(s1, inum) ==
  [Ev(s1, <<"wr", InodeBlk(inum)>>) EXCEPT
     !.dev = Store(s1, InodeBlk(inum), s1.buf)]

\* async fn write_inode(&self)
write_inode(st, inum) ==
  Bind(write_inode_read(st, inum), LAMBDA s1 :
    IF s1.err # "" THEN s1 ELSE write_inode_store(s1, inum))

\* --------------------------------------------------------- block allocator
\* FsInternal::alloc_block(): hands out a block number not handed out before
alloc_block(st) ==
  [Ev(st, <<"alloc", st.next>>) EXCEPT !.page = st.next, !.next = st.next + 1]

\* ---------------------------------------------------------------- resolver
\* fn parse_entry(raw_read, index)
parse_entry(raw_read, index) ==
  FromBytes(SubSeq(raw_read, index * EntryWidth + 1, index * EntryWidth + EntryWidth))

\* &raw_read[start..start + 8] is inside the block
EntryInRange(raw_read, index) == index * EntryWidth + EntryWidth <= Len(raw_read)

TooLargeLoose(num) == num > LIST_SIZE + 1

\* if num >= LIST_SIZE + 1 { panic!("Maximum file size exceeded!") }
TooLarge(num) == num >= LIST_SIZE + 1

\* `self.write_inode();` in get_or_alloc_page: the future is built and
\* dropped without being awaited, so its body never runs.
DroppedWriteInode(st, inum) == st

\* the indirection block of self.double is read and entry `index` decoded
IndirectEntry(st, index) ==
  LET addr == data_base + Unwrap(st.ino.double) * BLOCK_SIZE
      raw  == Fetch(st, addr)
      s1   == Ev(st, <<"rd", addr>>)
  IN IF EntryInRange(raw, index)
     THEN [s1 EXCEPT !.page = parse_entry(raw, index)]
     ELSE Panic(s1, "SliceOutOfRange")

\* get_or_alloc_page after its read_inode: s1 holds the refreshed inode
\* `if self.single.is_none() { self.single = Some(alloc_block()) }` for page
\* 0, the same with self.double for the other pages
EnsurePointer(s1, num) ==
  LET a == alloc_block(s1)
  IN IF num = 0
     THEN (IF IsNone(s1.ino.single)
           THEN [a EXCEPT !.ino.single = Some(a.page)] ELSE s1)
     ELSE (IF IsNone(s1.ino.double)
           THEN [a EXCEPT !.ino.double = Some(a.page)] ELSE s1)

PageOf(s1, inum, num) ==
  IF num = 0
  THEN LET need == IsNone(s1.ino.single)
           s2   == EnsurePointer(s1, num)
           s3   == [s2 EXCEPT !.page = Unwrap(s2.ino.single)]
       IN IF need THEN DroppedWriteInode(s3, inum) ELSE s3
  ELSE LET need == IsNone(s1.ino.double)
           s2   == EnsurePointer(s1, num)
       IN Bind(IndirectEntry(s2, num - 1), LAMBDA s3 :
            IF s3.err # "" THEN s3
            ELSE IF need THEN DroppedWriteInode(s3, inum) ELSE s3)

\* async fn get_or_alloc_page(&mut self, num)
get_or_alloc_page(st, inum, num) ==
  IF TooLarge(num) THEN Panic(st, "FileTooLarge")
  ELSE Bind(read_inode(Ev(st, <<"resolve", num>>), inum), LAMBDA s1 :
         IF s1.err # "" THEN s1 ELSE PageOf(s1, inum, num))

\* async fn get_page(&self, num)
get_page(st, inum, num) ==
  IF num * BLOCK_SIZE >= st.ino.size THEN Panic(st, "PageNotAllocated")
  ELSE Bind(read_inode(Ev(st, <<"lookup", num>>), inum), LAMBDA s1 :
         IF s1.err # "" THEN s1
         ELSE IF num = 0 THEN [s1 EXCEPT !.page = 0]
         ELSE IndirectEntry(s1, num - 1))

\* ------------------------------------------------------------------ engine
\* let blocks_to_act_on = ceil_div(block_offset + data.len(), BLOCK_SIZE)
blocks_to_act_on(offset, len) == ceil_div((offset % BLOCK_SIZE) + len, BLOCK_SIZE)

\* if block_offset != 0 && i > 0 { block_offset = 0 }
SkewAt(block_offset, i) == IF block_offset # 0 /\ i > 0 THEN 0 ELSE block_offset

NumBytesShort(i, n, len, done, block_offset) ==
  IF i = n - 1 THEN Max(len - done - 1, 0) ELSE BLOCK_SIZE - block_offset

\* let num_bytes = if i == blocks_to_act_on - 1 { len - done } else { BLOCK_SIZE - block_offset }
NumBytes(i, n, len, done, block_offset) ==
  IF i = n - 1 THEN len - done ELSE BLOCK_SIZE - block_offset

\* The address of the device write that ends one pass of write's loop:
\* `fs.device.write(&mut write_buf, offset, BLOCK_SIZE)`, offset being the
\* byte offset write was called with (not pg_offset).
WriteBackAddr(offset, pg_offset) == offset

\* the block of the resolved page is read and the slice of data laid over it
DataRead(s1, data, block_offset, written, num_bytes) ==
  LET pg_offset == data_base + s1.page * BLOCK_SIZE
      disk_page == Fetch(s1, pg_offset)
  IN [Ev(s1, <<"rd", pg_offset>>) EXCEPT
        !.buf = Overlay(disk_page, block_offset,
                        SubSeq(data, written + 1, written + num_bytes))]

\* the block is written back
WriteBack(s2, offset) ==
  LET waddr == WriteBackAddr(offset, data_base + s2.page * BLOCK_SIZE)
  IN [Ev(s2, <<"wr", waddr>>) EXCEPT !.dev = Store(s2, waddr, s2.buf)]

\* One pass of the loop of write, s1 being the state get_or_alloc_page
\* left: read the block of the page, copy the slice of data, write back.
WritePass(s1, offset, data, block_offset, written, num_bytes) ==
  WriteBack(DataRead(s1, data, block_offset, written, num_bytes), offset)

\* for i in 0..blocks_to_act_on, from pass i on
RECURSIVE WriteLoop(_, _, _, _, _, _, _)
WriteLoop(st, inum, offset, data, i, block_offset0, written) ==
  IF i >= blocks_to_act_on(offset, Len(data)) THEN [st EXCEPT !.ret = written]
  ELSE
    LET n == blocks_to_act_on(offset, Len(data))
        block_offset == SkewAt(block_offset0, i)
        num_bytes == NumBytes(i, n, Len(data), written, block_offset)
    IN Bind(get_or_alloc_page(st, inum, (offset \div BLOCK_SIZE) + i), LAMBDA s1 :
         IF s1.err # "" THEN s1
         ELSE Bind(WritePass(s1, offset, data, block_offset, written, num_bytes),
                   LAMBDA s3 : WriteLoop(s3, inum, offset, data, i + 1,
                                         block_offset, written + num_bytes)))

\* let last_byte = offset + written; if self.size < last_byte { .. }
FinishWrite(s1, offset) ==
  LET last_byte == offset + s1.ret
  IN IF s1.ino.size < last_byte
     THEN [s1 EXCEPT !.ino.size = last_byte]
     ELSE s1

\* async fn write(&mut self, offset, data)
write(st, inum, offset, data) ==
  Bind(WriteLoop(st, inum, offset, data, 0, offset % BLOCK_SIZE, 0), LAMBDA s1 :
    IF s1.err # "" THEN s1 ELSE FinishWrite(s1, offset))

ReadPassTouching(s1, block_offset, read, num_bytes) ==
  LET pg_offset == data_base + s1.page * BLOCK_SIZE
      disk_page == Fetch(s1, pg_offset)
      s2 == Ev(Ev(s1, <<"rd", pg_offset>>), <<"wr", pg_offset>>)
  IN [s2 EXCEPT !.out = Overlay(@, read,
        SubSeq(disk_page, block_offset + 1, block_offset + num_bytes)),
                !.dev = DevWrite(s1.dev, pg_offset, Overlay(disk_page, 0, <<1>>))]

\* One pass of the loop of read, s1 being the state get_page left: read the
\* block of the page and copy its slice into the caller's buffer.
ReadPass(s1, block_offset, read, num_bytes) ==
  LET pg_offset == data_base + s1.page * BLOCK_SIZE
      disk_page == Fetch(s1, pg_offset)
      s2 == Ev(s1, <<"rd", pg_offset>>)
  IN [s2 EXCEPT !.out = Overlay(@, read,
        SubSeq(disk_page, block_offset + 1, block_offset + num_bytes))]

\* for i in 0..blocks_to_act_on, from pass i on
RECURSIVE ReadLoop(_, _, _, _, _, _, _)
ReadLoop(st, inum, offset, len, i, block_offset0, read) ==
  IF i >= blocks_to_act_on(offset, len) THEN [st EXCEPT !.ret = read]
  ELSE
    LET n == blocks_to_act_on(offset, len)
        block_offset == SkewAt(block_offset0, i)
        num_bytes == NumBytes(i, n, len, read, block_offset)
    IN Bind(get_page(st, inum, (offset \div BLOCK_SIZE) + i), LAMBDA s1 :
         IF s1.err # "" THEN s1
         ELSE Bind(ReadPass(s1, block_offset, read, num_bytes),
                   LAMBDA s3 : ReadLoop(s3, inum, offset, len, i + 1,
                                        block_offset, read + num_bytes)))

\* pub fn read(&self, offset, data): data is the caller's buffer, zeroed
read(st, inum, offset, len) ==
  ReadLoop([st EXCEPT !.out = [k \in 1 .. len |-> 0]], inum, offset, len,
           0, offset % BLOCK_SIZE, 0)


\* --------------------------------------------------- operations in flight
Tasks == {1, 2}

\* what an operation in flight keeps between two awaits: its arguments, its
\* place (pc, pass i, bytes written) and its locals (st: the Inode object,
\* the buffer, the resolved page, the events so far)
IdleTask ==
  [kind |-> "none", pc |-> "idle", inum |-> 0, offset |-> 0, data |-> <<>>,
   i |-> 0, written |-> 0, st |-> Ctx(<<>>, NewInode(FILE_TYPE), 0)]
NoTasks == [t \in Tasks |-> IdleTask]

\* the locals of a call, the device and the allocator left out
Local(r) == [r EXCEPT !.dev = <<>>, !.next = 0]

\* the Inode objects given to write_inode: both pointers set
RaceInodes ==
  {[dirtype |-> FILE_TYPE, size |-> v, single |-> Some(v), double |-> Some(w)] :
     v \in 1 .. MaxField, w \in 1 .. MaxField}

\* ------------------------------------------------ convert (utils/src/lib.rs)
LogKilo == 10                    \* 1024.0 is 2^LogKilo
Digits == <<"0", "1", "2", "3", "4", "5", "6", "7", "8", "9">>
IsDigit(c) == \E d \in 1 .. 10 : Digits[d] = c
DigitVal(c) == (CHOOSE d \in 1 .. 10 : Digits[d] = c) - 1

\* a text is a sequence of characters; the number of its digits after "."
Unsigned(s) == IF s # <<>> /\ Head(s) \in {"+", "-"} THEN Tail(s) ELSE s
DotAt(u) == IF \E k \in 1 .. Len(u) : u[k] = "."
            THEN CHOOSE k \in 1 .. Len(u) : u[k] = "." ELSE Len(u) + 1

RECURSIVE NatOf(_)
NatOf(ds) ==
  IF ds = <<>> THEN 0 ELSE 10 * NatOf(SubSeq(ds, 1, Len(ds) - 1)) + DigitVal(ds[Len(ds)])

\* m * 2^e with m odd, or 0
RECURSIVE Normalise(_, _)
Normalise(m, e) ==
  IF m = 0 THEN [m |-> 0, e |-> 0]
  ELSE IF m % 2 = 0 THEN Normalise(m \div 2, e + 1)
  ELSE [m |-> m, e |-> e]

\* s.parse::<f64>(): an optional sign, digits with at most one ".", at least
\* one digit; the value n / 10^k is kept as m * 2^e (the texts given to the
\* model are those whose value is of that form, as an f64 holds them exactly)
parse_f64(s) ==
  LET u  == Unsigned(s)
      ds == SelectSeq(u, IsDigit)
      k  == Max(Len(u) - DotAt(u), 0)
  IN IF /\ \A j \in 1 .. Len(u) : IsDigit(u[j]) \/ u[j] = "."
        /\ Cardinality({j \in 1 .. Len(u) : u[j] = "."}) <= 1
        /\ ds # <<>>
     THEN [ok |-> TRUE, neg |-> (s[1] = "-"),
           t |-> Normalise(NatOf(ds) \div Pow(5, k), 0 - k)]
     ELSE [ok |-> FALSE, neg |-> FALSE, t |-> Normalise(0, 0)]

\* t * 1024.0 (j times, j > 0) or t / 1024.0 (-j times, j < 0)
Times1024(t, j) == IF t.m = 0 THEN t ELSE [t EXCEPT !.e = @ + LogKilo * j]

NoCall == [done |-> FALSE, s |-> <<>>, unit1 |-> "", unit2 |-> "",
           panic |-> "", fmt |-> "", neg |-> FALSE, res |-> Normalise(0, 0)]
Panicked(msg) == [NoCall EXCEPT !.panic = msg]

\* if res.fract() == 0.0 { res.to_string() } else { format!("{:.9}", res) }
Formatted(p, j) ==
  LET res == Times1024(p.t, j)
  IN [NoCall EXCEPT !.fmt = IF res.e >= 0 THEN "to_string" ELSE "{:.9}",
                    !.neg = p.neg, !.res = res]

convert_units_first(s, unit1, unit2) ==
  IF unit1 = "" \/ unit2 = ""
  THEN Panicked("_unit1, _unit2 should not be empty string")
  ELSE IF ~parse_f64(s).ok THEN Panicked("s cannot contains character!")
  ELSE Panicked("Unsupported conversion unit")

\* pub fn convert(s, _unit1, _unit2) -> String
convert(s, unit1, unit2) ==
  LET p == parse_f64(s)
      Unsupported == Panicked("Unsupported conversion unit")
  IN IF ~p.ok THEN Panicked("s cannot contains character!")
     ELSE IF unit1 = "" \/ unit2 = ""
     THEN Panicked("_unit1, _unit2 should not be empty string")
     ELSE IF unit2 = "MB"
     THEN (IF unit1 = "KB" THEN Formatted(p, -1)
           ELSE IF unit1 = "G" THEN Formatted(p, 1)
           ELSE IF unit1 = "B" THEN Formatted(p, -2)
           ELSE Unsupported)
     ELSE IF unit2 = "KB"
     THEN (IF unit1 = "MB" THEN Formatted(p, 1)
           ELSE IF unit1 = "G" THEN Formatted(p, 2)
           ELSE IF unit1 = "B" THEN Formatted(p, -1)
           ELSE Unsupported)
     ELSE IF unit2 = "G"
     THEN (IF unit1 = "MB" THEN Formatted(p, -1)
           ELSE IF unit1 = "KB" THEN Formatted(p, -2)
           ELSE IF unit1 = "B" THEN Formatted(p, -3)
           ELSE Unsupported)
     ELSE IF unit2 = "B"
     THEN (IF unit1 = "KB" THEN Formatted(p, 1)
           ELSE IF unit1 = "MB" THEN Formatted(p, 2)
           ELSE IF unit1 = "G" THEN Formatted(p, 3)
           ELSE Unsupported)
     ELSE Unsupported

\* ------------------------------------------------- the two servers (fs.rs)
FS_SHUTDOWN == "FS_SHUTDOWN"     \* crate::constants::FS_SHUTDOWN
HELLO == "hello world"           \* what FS::open writes
Servers == {1, 2}                \* server1 (client-facing), server2 (SPDK)

\* before FS::new: no server started, no socket bound
FsNotStarted ==
  /\ conv = NoCall
  /\ tasks = NoTasks
  /\ srv = [s \in Servers |-> [st |-> "init", handled |-> <<>>, app_stop |-> 0]]
  /\ sock = [s \in Servers |-> <<>>]
  /\ cli = "idle"
  /\ opens = 0

RECURSIVE handle_client_deaf(_)
handle_client_deaf(lines) ==
  IF lines = <<>> THEN "NO_OP" ELSE handle_client_deaf(Tail(lines))

\* fn handle_client(stream): the lines of the stream, up to its end
RECURSIVE handle_client(_)
handle_client(lines) ==
  IF lines = <<>> THEN "NO_OP"
  ELSE IF Head(lines) = FS_SHUTDOWN THEN "SHUTDOWN"
  ELSE handle_client(Tail(lines))

\* fn handle_server1(stream)
RECURSIVE handle_server1(_)
handle_server1(lines) ==
  IF lines = <<>> THEN "NO_OP"
  ELSE IF Head(lines) = FS_SHUTDOWN THEN "SHUTDOWN"
  ELSE handle_server1(Tail(lines))

Handle(s, lines) == IF s = 1 THEN handle_client(lines) ELSE handle_server1(lines)

\* what follows the accept loop: start_server1 returns; start_server2 calls
\* spdk_rs::event::app_stop(true) and returns
LeaveLoop(r, s) ==
  [r EXCEPT !.st = "stopped", !.app_stop = IF s = 2 THEN @ + 1 ELSE @]

\* UnixListener::bind succeeds
BindOk(s) ==
  /\ srv[s].st = "init"
  /\ srv' = [srv EXCEPT ![s].st = "listening"]
  /\ UNCHANGED <<sock, cli, opens>> /\ UNCHANGED <<ivars, conv, tasks>>

\* UnixListener::bind fails: start_server1 panics on unwrap; start_server2
\* prints and returns
BindFail(s) ==
  /\ srv[s].st = "init"
  /\ srv' = [srv EXCEPT ![s].st = IF s = 1 THEN "panicked" ELSE "returned"]
  /\ UNCHANGED <<sock, cli, opens>> /\ UNCHANGED <<ivars, conv, tasks>>

\* one pass of `for stream in listener.incoming()` with Ok(stream): the
\* handler thread is spawned and joined, the loop is left on SHUTDOWN
Accept(s) ==
  /\ srv[s].st = "listening"
  /\ sock[s] # <<>>
  /\ LET r == [srv[s] EXCEPT !.handled = Append(@, Head(sock[s]))]
     IN srv' = [srv EXCEPT ![s] =
                  IF Handle(s, Head(sock[s])) = "SHUTDOWN" THEN LeaveLoop(r, s) ELSE r]
  /\ sock' = [sock EXCEPT ![s] = Tail(@)]
  /\ UNCHANGED <<cli, opens>> /\ UNCHANGED <<ivars, conv, tasks>>

\* one pass with Err(err): the loop is left
AcceptErr(s) ==
  /\ srv[s].st = "listening"
  /\ srv' = [srv EXCEPT ![s] = LeaveLoop(srv[s], s)]
  /\ UNCHANGED <<sock, cli, opens>> /\ UNCHANGED <<ivars, conv, tasks>>

\* UnixStream::connect(path).unwrap() succeeds when the listener is bound
CanConnect(s) == srv[s].st = "listening"

\* FS::open(): connect to server1, write "hello world", drop the stream
Open ==
  /\ opens < MaxOpens
  /\ opens' = opens + 1
  /\ sock' = IF CanConnect(1) THEN [sock EXCEPT ![1] = Append(@, <<HELLO>>)] ELSE sock
  /\ UNCHANGED <<srv, cli>> /\ UNCHANGED <<ivars, conv, tasks>>

\* FS::shutdown(), first half: connect to server2 and write FS_SHUTDOWN
ShutdownServer2 ==
  /\ cli = "idle"
  /\ IF CanConnect(2)
     THEN /\ sock' = [sock EXCEPT ![2] = Append(@, <<FS_SHUTDOWN>>)]
          /\ cli' = "sent2"
     ELSE /\ cli' = "panicked"
          /\ UNCHANGED sock
  /\ UNCHANGED <<srv, opens>> /\ UNCHANGED <<ivars, conv, tasks>>

\* FS::shutdown(), second half: connect to server1 and write FS_SHUTDOWN
ShutdownServer1 ==
  /\ cli = "sent2"
  /\ IF CanConnect(1)
     THEN /\ sock' = [sock EXCEPT ![1] = Append(@, <<FS_SHUTDOWN>>)]
          /\ cli' = "done"
     ELSE /\ cli' = "panicked"
          /\ UNCHANGED sock
  /\ UNCHANGED <<srv, opens>> /\ UNCHANGED <<ivars, conv, tasks>>

\* ------------------------------------------------------------- operations
\* The bytes handed to the t-th operation when it is a write of `len` bytes:
\* non-zero, different at each position and for each operation.
Payload(t, len) == [j \in 1 .. len |-> (MaxLen + 1) * t + j]

Outcome(op, inum, arg, data, len, r) ==
  [op |-> op, inum |-> inum, arg |-> arg, data |-> data, len |-> len,
   err |-> r.err, ret |-> r.ret, out |-> r.out, page |-> r.page, tr |-> r.tr,
   ios |-> r.ios, fail |-> r.fail]

NoOp == Outcome("none", 0, 0, <<>>, 0, Ctx(<<>>, NewInode(FILE_TYPE), 0))

Commit(i, r) ==
  /\ dev' = r.dev
  /\ mem' = [mem EXCEPT ![i] = r.ino]
  /\ nextFree' = r.next
  /\ nops' = nops + 1
  /\ UNCHANGED <<fsvars, conv, tasks>>

\* A freshly zeroed device, one Inode::new object per inode number.
Init ==
  /\ FsNotStarted
  /\ dev = <<>>
  /\ mem = [i \in Inums |-> NewInode(FILE_TYPE)]
  /\ nextFree = 0
  /\ last = NoOp
  /\ nops = 0

\* Inode::new(dirtype, inum): the in-memory object is built afresh
New(i, dirtype) ==
  /\ nops < MaxOps
  /\ mem' = [mem EXCEPT ![i] = NewInode(dirtype)]
  /\ last' = Outcome("new", i, dirtype, <<>>, 0, Ctx(dev, NewInode(dirtype), nextFree))
  /\ nops' = nops + 1
  /\ UNCHANGED <<dev, nextFree>>
  /\ UNCHANGED <<fsvars, conv, tasks>>

\* inode.write(offset, data)
Write(i, offset, len) ==
  /\ nops < MaxOps
  /\ \E r \in {write(Ctx(dev, mem[i], nextFree), i, offset, Payload(nops + 1, len))} :
        /\ Commit(i, r)
        /\ last' = Outcome("write", i, offset, Payload(nops + 1, len), len, r)

\* inode.read(offset, buffer of len bytes)
Read(i, offset, len) ==
  /\ nops < MaxOps
  /\ \E r \in {read(Ctx(dev, mem[i], nextFree), i, offset, len)} :
        /\ Commit(i, r)
        /\ last' = Outcome("read", i, offset, <<>>, len, r)

\* inode.get_or_alloc_page(num)
Resolve(i, num) ==
  /\ nops < MaxOps
  /\ \E r \in {get_or_alloc_page(Ctx(dev, mem[i], nextFree), i, num)} :
        /\ Commit(i, r)
        /\ last' = Outcome("resolve", i, num, <<>>, 0, r)

Next ==
  \/ \E i \in Inums, t \in {DIR_TYPE, FILE_TYPE} : New(i, t)
  \/ \E i \in Inums, o \in 0 .. MaxOffset, l \in 0 .. MaxLen : Write(i, o, l)
  \/ \E i \in Inums, o \in 0 .. MaxOffset, l \in 0 .. MaxLen : Read(i, o, l)
  \/ \E i \in Inums, p \in 0 .. MaxPage : Resolve(i, p)

Spec == Init /\ [][Next]_vars

\* ------------------------------------------------------- the codec alone
\* The inodes given to the codec: every kind, and every size and pointer up
\* to MaxField, each pointer set or unset.
CodecPointers == {None} \cup {Some(v) : v \in 0 .. MaxField}
CodecInodes ==
  [dirtype : {DIR_TYPE, FILE_TYPE}, size : 0 .. MaxField,
   single : CodecPointers, double : CodecPointers]

InitCodec ==
  /\ FsNotStarted
  /\ dev = <<>>
  /\ mem \in [Inums -> CodecInodes]
  /\ nextFree = 0
  /\ last = NoOp
  /\ nops = 0

\* inode.write_inode(): the record of the object is encoded onto the device
WriteInode(i) ==
  /\ nops < MaxOps
  /\ \E r \in {write_inode(Ctx(dev, mem[i], nextFree), i)} :
        /\ Commit(i, r)
        /\ last' = Outcome("write_inode", i, 0, mem[i], 0, r)

\* inode.read_inode(): the record on the device is decoded into the object
ReadInode(i) ==
  /\ nops < MaxOps
  /\ \E r \in {read_inode(Ctx(dev, mem[i], nextFree), i)} :
        /\ Commit(i, r)
        /\ last' = Outcome("read_inode", i, 0, mem[i], 0, r)

NextCodec ==
  \/ \E i \in Inums : WriteInode(i)
  \/ \E i \in Inums : ReadInode(i)

SpecCodec == InitCodec /\ [][NextCodec]_vars

\* ------------------------------------------- the engine on a failing device
\* inode.write(offset, data), the k-th device transfer of the call failing
FaultyWrite(i, offset, len, k) ==
  /\ nops < MaxOps
  /\ \E r \in {write(FaultyCtx(dev, mem[i], nextFree, k), i, offset,
                      Payload(nops + 1, len))} :
        /\ Commit(i, r)
        /\ last' = Outcome("write", i, offset, Payload(nops + 1, len), len, r)

\* inode.read(offset, buffer), the k-th device transfer of the call failing
FaultyRead(i, offset, len, k) ==
  /\ nops < MaxOps
  /\ \E r \in {read(FaultyCtx(dev, mem[i], nextFree, k), i, offset, len)} :
        /\ Commit(i, r)
        /\ last' = Outcome("read", i, offset, <<>>, len, r)

NextFault ==
  \/ \E i \in Inums, o \in 0 .. FaultMaxOffset, l \in 0 .. FaultMaxLen,
        k \in 0 .. MaxFault : FaultyWrite(i, o, l, k)
  \/ \E i \in Inums, o \in 0 .. FaultMaxOffset, l \in 0 .. FaultMaxLen,
        k \in 0 .. MaxFault : FaultyRead(i, o, l, k)

SpecFault == Init /\ [][NextFault]_vars

\* ------------------------------ two operations interleaved at their awaits
\* the locals of task t together with the device and allocator of the moment
Now(t) == [tasks[t].st EXCEPT !.dev = dev, !.next = nextFree]

\* the page, in-block offset and byte count of the pass task t is in
PassPage(t) == (tasks[t].offset \div BLOCK_SIZE) + tasks[t].i
PassOffset(t) == SkewAt(tasks[t].offset % BLOCK_SIZE, tasks[t].i)
PassBytes(t) ==
  NumBytes(tasks[t].i, blocks_to_act_on(tasks[t].offset, Len(tasks[t].data)),
           Len(tasks[t].data), tasks[t].written, PassOffset(t))

\* task t goes on: r is what the step made of its locals, of the device and
\* of the allocator
Resume(t, r, pc) ==
  /\ tasks' = [tasks EXCEPT ![t].st = Local(r),
                            ![t].pc = IF r.err # "" THEN "done" ELSE pc]
  /\ dev' = r.dev
  /\ nextFree' = r.next
  /\ UNCHANGED <<mem, last, nops, fsvars, conv>>

\* inode.write(offset, data) is called on a new Inode object
StartWrite(t, i, offset, len) ==
  /\ tasks[t].pc = "idle"
  /\ LET st == Ctx(<<>>, NewInode(FILE_TYPE), 0)
         none == blocks_to_act_on(offset, len) = 0
     IN tasks' = [tasks EXCEPT ![t] =
          [kind |-> "write", pc |-> IF none THEN "done" ELSE "refresh",
           inum |-> i, offset |-> offset, data |-> Payload(t, len),
           i |-> 0, written |-> 0,
           st |-> IF none THEN FinishWrite(st, offset) ELSE st]]
  /\ UNCHANGED <<ivars, fsvars, conv>>

\* get_or_alloc_page up to the end of its read_inode
Refresh(t) ==
  /\ tasks[t].pc = "refresh"
  /\ \E r \in {IF TooLarge(PassPage(t)) THEN Panic(Now(t), "FileTooLarge")
               ELSE read_inode(Ev(Now(t), <<"resolve", PassPage(t)>>),
                               tasks[t].inum)} :
       Resume(t, r, "ensure")

\* the pointer is tested and, if unset, a block requested for it
Ensure(t) ==
  /\ tasks[t].pc = "ensure"
  /\ \E r \in {EnsurePointer(Now(t), PassPage(t))} :
       IF PassPage(t) = 0
       THEN Resume(t, [r EXCEPT !.page = Unwrap(r.ino.single)], "data")
       ELSE Resume(t, r, "entry")

\* the read of the indirection block
Entry(t) ==
  /\ tasks[t].pc = "entry"
  /\ \E r \in {IndirectEntry(Now(t), PassPage(t) - 1)} : Resume(t, r, "data")

\* the read of the data block
Data(t) ==
  /\ tasks[t].pc = "data"
  /\ \E r \in {DataRead(Now(t), tasks[t].data, PassOffset(t),
                        tasks[t].written, PassBytes(t))} :
       Resume(t, r, "back")

\* the write-back; after the last pass write returns
Back(t) ==
  /\ tasks[t].pc = "back"
  /\ LET written == tasks[t].written + PassBytes(t)
         more == tasks[t].i + 1
                   < blocks_to_act_on(tasks[t].offset, Len(tasks[t].data))
     IN \E r \in {WriteBack(Now(t), tasks[t].offset)} :
          /\ tasks' = [tasks EXCEPT
               ![t].st = IF more THEN Local(r)
                         ELSE Local(FinishWrite([r EXCEPT !.ret = written],
                                                tasks[t].offset)),
               ![t].pc = IF more THEN "refresh" ELSE "done",
               ![t].i = @ + 1,
               ![t].written = written]
          /\ dev' = r.dev
          /\ nextFree' = r.next
  /\ UNCHANGED <<mem, last, nops, fsvars, conv>>

\* inode.write_inode() is called on an Inode object
StartWriteInode(t, i, ino) ==
  /\ tasks[t].pc = "idle"
  /\ tasks' = [tasks EXCEPT ![t] =
       [IdleTask EXCEPT !.kind = "write_inode", !.pc = "wi_read", !.inum = i,
                        !.st = Ctx(<<>>, ino, 0)]]
  /\ UNCHANGED <<ivars, fsvars, conv>>

\* write_inode: the read of the inode-table block
WiRead(t) ==
  /\ tasks[t].pc = "wi_read"
  /\ \E r \in {write_inode_read(Now(t), tasks[t].inum)} : Resume(t, r, "wi_store")

\* write_inode: the write of the inode-table block
WiStore(t) ==
  /\ tasks[t].pc = "wi_store"
  /\ \E r \in {write_inode_store(Now(t), tasks[t].inum)} : Resume(t, r, "done")

TaskStep(t) ==
  \/ Refresh(t) \/ Ensure(t) \/ Entry(t) \/ Data(t) \/ Back(t)
  \/ WiRead(t) \/ WiStore(t)

NextRace ==
  \/ \E t \in Tasks, i \in Inums, o \in 0 .. RaceMaxOffset, l \in 0 .. RaceMaxLen :
       StartWrite(t, i, o, l)
  \/ \E t \in Tasks, i \in Inums, ino \in RaceInodes : StartWriteInode(t, i, ino)
  \/ \E t \in Tasks : Refresh(t)
  \/ \E t \in Tasks : Ensure(t)
  \/ \E t \in Tasks : Entry(t)
  \/ \E t \in Tasks : Data(t)
  \/ \E t \in Tasks : Back(t)
  \/ \E t \in Tasks : WiRead(t)
  \/ \E t \in Tasks : WiStore(t)

SpecRace == Init /\ [][NextRace]_vars

\* the executor goes on polling every operation in flight
SpecRaceFair == SpecRace /\ \A t \in Tasks : WF_vars(TaskStep(t))

\* ------------------------------------------------------ the servers alone
InitFs ==
  /\ FsNotStarted
  /\ dev = <<>>
  /\ mem = [i \in Inums |-> NewInode(FILE_TYPE)]
  /\ nextFree = 0
  /\ last = NoOp
  /\ nops = 0

NextFs ==
  \/ \E s \in Servers : BindOk(s)
  \/ \E s \in Servers : BindFail(s)
  \/ \E s \in Servers : Accept(s)
  \/ \E s \in Servers : AcceptErr(s)
  \/ Open
  \/ ShutdownServer2
  \/ ShutdownServer1

SpecFs == InitFs /\ [][NextFs]_vars

\* a server that is in its accept loop goes on with it
SpecFsFair == SpecFs /\ \A s \in Servers : WF_vars(Accept(s))

\* ------------------------------------------------------- convert alone
\* the texts and units convert is called with
ConvertTexts ==
  { <<"1">>, <<"1", "0", "2", "4">>, <<"1", "0", "4", "8", "5", "7", "6">>,
    <<"0", ".", "5">>, <<"-", "2">>, <<"1", ".">>, <<"0">>,
    <<"1", "K", "B">>, <<>>, <<".">>, <<"-">>, <<"1", ".", "5", ".">> }
ConvertUnits == {"", "B", "KB", "MB", "G", "PB", "XB"}

InitConvert ==
  /\ conv \in {[NoCall EXCEPT !.s = s, !.unit1 = u1, !.unit2 = u2] :
                 s \in ConvertTexts, u1 \in ConvertUnits, u2 \in ConvertUnits}
  /\ tasks = NoTasks
  /\ srv = [s \in Servers |-> [st |-> "init", handled |-> <<>>, app_stop |-> 0]]
  /\ sock = [s \in Servers |-> <<>>]
  /\ cli = "idle"
  /\ opens = 0
  /\ dev = <<>>
  /\ mem = [i \in Inums |-> NewInode(FILE_TYPE)]
  /\ nextFree = 0
  /\ last = NoOp
  /\ nops = 0

\* the call is made
Convert ==
  /\ ~conv.done
  /\ conv' = [convert(conv.s, conv.unit1, conv.unit2) EXCEPT
                !.done = TRUE, !.s = conv.s, !.unit1 = conv.unit1,
                !.unit2 = conv.unit2]
  /\ UNCHANGED <<ivars, fsvars, tasks>>

NextConvert == Convert

SpecConvert == InitConvert /\ [][NextConvert]_vars

\* ------------------------------------------------------- reading the trace
EventsOf(tr, kind) == SelectSeq(tr, LAMBDA e : e[1] = kind)
ArgsOf(tr, kind) == [k \in 1 .. Len(EventsOf(tr, kind)) |-> EventsOf(tr, kind)[k][2]]

\* the least m with m * BLOCK_SIZE >= x
BlocksCovering(x) == CHOOSE m \in 0 .. x : m * BLOCK_SIZE >= x /\ (m = 0 \/ (m - 1) * BLOCK_SIZE < x)

\* the pages floor(o / BLOCK_SIZE), +1, ... that n bytes at offset o lie on
SpanPages(o, n) ==
  [k \in 1 .. BlocksCovering((o % BLOCK_SIZE) + n) |-> (o \div BLOCK_SIZE) + k - 1]

\* the inode record of inode number i as it is stored on device d
OnDevice(d, i) ==
  Decode(SubSeq(DevRead(d, InodeBlk(i)), InodeBlkOffset(i) + 1,
                InodeBlkOffset(i) + INODE_SIZE))

\* the block numbers the Block Allocator has handed out
Allocated == 0 .. (nextFree - 1)

\* the pointer fields of an Inode object that are set
Pointers(ino) ==
  (IF IsNone(ino.single) THEN {} ELSE {<<"single", Unwrap(ino.single)>>})
  \cup (IF IsNone(ino.double) THEN {} ELSE {<<"double", Unwrap(ino.double)>>})

\* ------------------------------------------------------------------ claims

\* C1: write-then-read round trip: when a write of a non-empty byte string b
\* at offset o succeeded and the next operation reads len(b) bytes at offset
\* o of the same inode, the read succeeds and returns exactly b.
C1_RoundTrip ==
  [][(/\ last.op = "write" /\ last.err = "" /\ last.len > 0
      /\ last'.op = "read" /\ last'.inum = last.inum
      /\ last'.arg = last.arg /\ last'.len = last.len)
     => (last'.err = "" /\ last'.out = last.data)]_vars

\* C2: size monotonicity: after a successful write(inode, offset, bytes) the
\* inode's size is max(size before the write, offset + bytes_written).
C2_SizeMax ==
  [][(last'.op = "write" /\ last'.err = "" /\ nops' = nops + 1)
     => mem'[last'.inum].size
          = Max(mem[last'.inum].size, last'.arg + last'.ret)]_vars

\* C3: out-of-range read: a read with a non-empty buffer at an offset >= the
\* inode's size fails with PageNotAllocated and returns no bytes.
C3_OutOfRangeRead ==
  [][(/\ last'.op = "read" /\ nops' = nops + 1 /\ last'.len > 0
      /\ last'.arg >= mem[last'.inum].size)
     => (last'.err = "PageNotAllocated" /\ last'.ret = 0)]_vars

\* C4: capacity boundary: get_or_alloc_page fails with FileTooLarge for
\* logical page LIST_SIZE + 1 and every larger page, issuing no device
\* operation and no allocator request and leaving the device, the allocator
\* and the inode unchanged; for logical page LIST_SIZE it succeeds.
C4_CapacityBoundary ==
  [][(last'.op = "resolve" /\ nops' = nops + 1)
     => IF last'.arg >= LIST_SIZE + 1
        THEN /\ last'.err = "FileTooLarge"
             /\ last'.tr = <<>>
             /\ dev' = dev /\ nextFree' = nextFree /\ mem' = mem
        ELSE last'.arg = LIST_SIZE => last'.err = ""]_vars

C4_Witness ==
  /\ last.op = "resolve" /\ last.arg = LIST_SIZE + 1
  /\ last.err = "FileTooLarge" /\ dev # <<>>

\* C5: direct-page allocation idempotence, first half: a successful write
\* that touches page 0 of an inode whose direct pointer is unset requests
\* exactly one block from the Block Allocator and sets direct_pointer to it.
C5_FirstWriteAllocates ==
  [][(/\ last'.op = "write" /\ last'.err = "" /\ nops' = nops + 1
      /\ 0 \in {SpanPages(last'.arg, last'.len)[k] :
                  k \in 1 .. Len(SpanPages(last'.arg, last'.len))}
      /\ IsNone(mem[last'.inum].single))
     => (/\ Len(EventsOf(last'.tr, "alloc")) = 1
         /\ mem'[last'.inum].single = Some(ArgsOf(last'.tr, "alloc")[1]))]_vars

C7_CodecRoundTrip ==
  [][(/\ last.op = "write_inode" /\ last'.op = "read_inode"
      /\ last'.inum = last.inum /\ nops' = nops + 1)
     => (last.err = "" /\ last'.err = "" /\ mem'[last.inum] = last.data)]_vars

\* C8: no block sharing: every set pointer of every inode is a block number
\* the Block Allocator handed out, and no block number is held by two
\* pointer fields, of the same inode or of different inodes.
C8_NoSharing ==
  /\ \A i \in Inums : \A p \in Pointers(mem[i]) : p[2] \in Allocated
  /\ \A i, j \in Inums : \A p \in Pointers(mem[i]), q \in Pointers(mem[j]) :
       (p[2] = q[2]) => (i = j /\ p = q)

\* C9: size persistence: when a write returns successfully, the size field
\* of the inode's record on the device is max(previous size, offset +
\* bytes_written).
C9_SizePersisted ==
  [][(last'.op = "write" /\ last'.err = "" /\ nops' = nops + 1)
     => OnDevice(dev', last'.inum).size
          = Max(mem[last'.inum].size, last'.arg + last'.ret)]_vars

\* a connection that carries the FS_SHUTDOWN control message
Carries(conn) == \E k \in 1 .. Len(conn) : conn[k] = FS_SHUTDOWN

\* C11: shutdown: a connection carrying FS_SHUTDOWN is the last one a server
\* handles, and having handled it the server has left its accept loop; once
\* FS::shutdown has delivered the message to both servers, both eventually
\* stop.
C11_Shutdown ==
  /\ [](\A s \in Servers : \A k \in 1 .. Len(srv[s].handled) :
          Carries(srv[s].handled[k])
            => (k = Len(srv[s].handled) /\ srv[s].st = "stopped"))
  /\ (cli = "done") ~> (\A s \in Servers : srv[s].st = "stopped")

C11_Witness ==
  /\ cli = "done"
  /\ \A s \in Servers :
       /\ srv[s].st = "stopped"
       /\ srv[s].handled # <<>>
       /\ Carries(srv[s].handled[Len(srv[s].handled)])
  /\ Len(srv[1].handled) > 1

\* C12: device failures are surfaced: an engine operation during which a
\* device read or write failed ends with DeviceIoFailed (or CorruptRecord),
\* not with a byte count.
C12_FailuresSurfaced ==
  (last.op \in {"write", "read"} /\ last.fail # 0 /\ last.ios >= last.fail)
    => last.err \in {"DeviceIoFailed", "CorruptRecord"}

\* C13: write returns len(bytes): a write that succeeds returns exactly the
\* length of the bytes it was given, whatever the offset and the length.
C13_WriteReturnsLen ==
  (last.op = "write" /\ last.err = "") => last.ret = Len(last.data)

\* a successful write of MaxLen bytes, unaligned, over three blocks
C13_Witness ==
  /\ last.op = "write" /\ last.err = ""
  /\ last.len = MaxLen /\ last.arg % BLOCK_SIZE # 0
  /\ blocks_to_act_on(last.arg, last.len) = 3
  /\ last.ret = MaxLen

\* the set of logical pages that n bytes at offset o lie on
PagesOf(o, n) == {SpanPages(o, n)[k] : k \in DOMAIN SpanPages(o, n)}

\* C14: read returns len(buffer): a read that succeeds returns exactly the
\* length of the buffer, and a read of at least one byte whose span includes
\* a logical page that starts at or beyond the size recorded for the inode
\* fails with PageNotAllocated.
C14_ReadReturnsLen ==
  [][(last'.op = "read" /\ nops' = nops + 1) =>
       /\ last'.err = "" => last'.ret = last'.len
       /\ (/\ last'.len > 0
           /\ \E p \in PagesOf(last'.arg, last'.len) :
                 p * BLOCK_SIZE >= OnDevice(dev, last'.inum).size)
          => last'.err = "PageNotAllocated"]_vars

\* C15: authoritative refresh: the size bound check of get_page is decided
\* by the size stored on the device when the call starts: the first page a
\* read looks up is refused exactly when it starts at or beyond that size,
\* whatever the Inode object held in memory.
C15_AuthoritativeRefresh ==
  [][(/\ last'.op = "read" /\ nops' = nops + 1
      /\ blocks_to_act_on(last'.arg, last'.len) > 0) =>
       ((last'.err = "PageNotAllocated" /\ last'.tr = <<>>)
          <=> (last'.arg \div BLOCK_SIZE) * BLOCK_SIZE
                >= OnDevice(dev, last'.inum).size)]_vars

\* the units the documentation of convert lists
SupportedUnits == {"MB", "KB", "G", "B"}

\* C16: convert with a numeric s panics with "Unsupported conversion unit"
\* whenever unit1 or unit2 is not a supported unit (the empty string
\* included) and whenever unit1 equals unit2.
C16_UnsupportedUnit ==
  (/\ conv.done /\ parse_f64(conv.s).ok
   /\ \/ conv.unit1 \notin SupportedUnits
      \/ conv.unit2 \notin SupportedUnits
      \/ conv.unit1 = conv.unit2)
    => conv.panic = "Unsupported conversion unit"

\* C17: convert panics with "s cannot contains character!" whenever s does
\* not parse as a number, whatever the units are (empty and unsupported
\* ones included).
C17_ParseFirst ==
  (conv.done /\ ~parse_f64(conv.s).ok)
    => conv.panic = "s cannot contains character!"

\* a text that is no number, given with an empty and an unsupported unit
C17_Witness ==
  /\ conv.done
  /\ conv.s = <<"1", "K", "B">> /\ conv.unit1 = "" /\ conv.unit2 = "XB"
  /\ conv.panic = "s cannot contains character!"

\* the positions of the write-backs in a trace; in write, the event before
\* each is the read of the data block of the page the resolver returned
WriteBacks(tr) == {k \in 1 .. Len(tr) : tr[k][1] = "wr"}
IsDataBlock(addr) == addr >= data_base /\ (addr - data_base) % BLOCK_SIZE = 0

\* C18: read-modify-write targets one block: every device write of a write
\* operation goes to the device block that was read just before it, the data
\* block data_base + physical_block_number * BLOCK_SIZE of the resolved page.
C18_SameBlock ==
  last.op = "write" =>
    \A k \in WriteBacks(last.tr) :
      /\ k > 1
      /\ last.tr[k - 1] = <<"rd", last.tr[k][2]>>
      /\ IsDataBlock(last.tr[k][2])

\* C19: write frame: a successful write of inode i changes no device block
\* but the data blocks of the pages it resolved, changes no inode-table
\* record of another inode, and, when it lies within one block, leaves the
\* bytes of that block outside [o % BLOCK_SIZE, o % BLOCK_SIZE + n) as they
\* were.
C19_WriteFrame ==
  [][(last'.op = "write" /\ last'.err = "" /\ nops' = nops + 1) =>
       LET tr == last'.tr
           touched == {tr[k - 1][2] : k \in WriteBacks(tr)}
           bo == last'.arg % BLOCK_SIZE
       IN /\ \A a \in DOMAIN dev \cup DOMAIN dev' :
               DevRead(dev', a) # DevRead(dev, a) => a \in touched
          /\ \A j \in Inums \ {last'.inum} : OnDevice(dev', j) = OnDevice(dev, j)
          /\ Len(SpanPages(last'.arg, last'.len)) = 1 =>
               \A a \in touched : \A b \in 1 .. BLOCK_SIZE :
                 (b <= bo \/ b > bo + last'.len)
                   => DevRead(dev', a)[b] = DevRead(dev, a)[b]]_vars

\* C20: distinct pages map to distinct blocks: the pages one successful
\* write resolves (all different) are read from pairwise different data
\* blocks, a page whose pointer or entry is unset getting a fresh block.
C20_DistinctBlocks ==
  (last.op = "write" /\ last.err = "") =>
    \A k1, k2 \in WriteBacks(last.tr) :
      k1 # k2 => last.tr[k1 - 1][2] # last.tr[k2 - 1][2]

\* the positions of the write-backs of a trace, in order
RECURSIVE WriteBackSeq(_, _)
WriteBackSeq(tr, k) ==
  IF k > Len(tr) THEN <<>>
  ELSE (IF tr[k][1] = "wr" THEN <<k>> ELSE <<>>) \o WriteBackSeq(tr, k + 1)

\* C21: resolver agreement: for every page p a successful write resolved
\* with get_or_alloc_page, a get_page of p made after the write, if it
\* returns, returns the physical block number the write was given for p.
C21_ResolverAgreement ==
  (last.op = "write" /\ last.err = "") =>
    LET pages == ArgsOf(last.tr, "resolve")
        wbs   == WriteBackSeq(last.tr, 1)
    IN \A j \in 1 .. Len(wbs) :
         \A r \in {get_page(Ctx(dev, mem[last.inum], nextFree), last.inum, pages[j])} :
           r.err = "" => data_base + r.page * BLOCK_SIZE = last.tr[wbs[j] - 1][2]

\* C22: lazy indirect allocation: a successful write that touches only
\* logical page 0 leaves an unset indirect_pointer unset; one that touches a
\* page >= 1 with the indirect_pointer unset sets it to a block it requested
\* from the Block Allocator; one that finds it set leaves it as it is.
C22_LazyIndirect ==
  [][(last'.op = "write" /\ last'.err = "" /\ nops' = nops + 1) =>
       LET i     == last'.inum
           pages == PagesOf(last'.arg, last'.len)
           got   == {ArgsOf(last'.tr, "alloc")[k] :
                       k \in 1 .. Len(ArgsOf(last'.tr, "alloc"))}
       IN /\ (pages \subseteq {0} /\ IsNone(mem[i].double))
               => IsNone(mem'[i].double)
          /\ ((\E q \in pages : q >= 1) /\ IsNone(mem[i].double))
               => (~IsNone(mem'[i].double) /\ Unwrap(mem'[i].double) \in got)
          /\ ~IsNone(mem[i].double) => mem'[i].double = mem[i].double]_vars

\* C23: read is side-effect free on persistent state: a read, successful or
\* failing, issues no device write and no allocator request, and leaves
\* every device block and the allocator as they were.
C23_ReadOnly ==
  [][(last'.op = "read" /\ nops' = nops + 1) =>
       /\ EventsOf(last'.tr, "wr") = <<>>
       /\ EventsOf(last'.tr, "alloc") = <<>>
       /\ dev' = dev
       /\ nextFree' = nextFree]_vars

\* a successful read over two pages of a device that holds data
C23_Witness ==
  /\ last.op = "read" /\ last.err = "" /\ last.len > 0
  /\ Len(EventsOf(last.tr, "lookup")) = 2
  /\ dev # <<>>

\* two writes to page 0 of the same inode number, each on a new Inode object
\* (pointers unset), have both re-read the inode record and neither has yet
\* tested its pointer
BothRefreshed ==
  /\ \A t \in Tasks : /\ tasks[t].kind = "write" /\ tasks[t].pc = "ensure"
                      /\ tasks[t].i = 0 /\ PassPage(t) = 0
  /\ tasks[1].inum = tasks[2].inum

\* both have allocated and returned, and the direct pointer on the device is
\* not the block one of them allocated and stored its data in
PointerRaced ==
  /\ \A t \in Tasks : /\ tasks[t].pc = "done"
                      /\ EventsOf(tasks[t].st.tr, "alloc") # <<>>
  /\ \E t \in Tasks :
       OnDevice(dev, tasks[t].inum).single
         # Some(ArgsOf(tasks[t].st.tr, "alloc")[1])

\* C24: same-inode race: two writes to the same inode number whose pointer
\* is unset, interleaved so that both have read the inode record before
\* either goes on, both find the pointer unset and allocate, and the pointer
\* left on the device does not name the block one of them wrote its data to.
C24_SameInodeRace == BothRefreshed ~> PointerRaced

\* C25: different-inode independence: when two write_inode calls on two
\* different inode numbers, in flight together, have both returned, the
\* record of each inode on the device holds the fields of the object its
\* own call wrote.
C25_Independence ==
  (/\ \A t \in Tasks : /\ tasks[t].kind = "write_inode" /\ tasks[t].pc = "done"
                       /\ tasks[t].st.err = ""
   /\ tasks[1].inum # tasks[2].inum)
    => \A t \in Tasks : OnDevice(dev, tasks[t].inum) = tasks[t].st.ino

\* the bytes written before pass j (1, 2, ...) of a write at offset o, and
\* the in-block offset of pass j, every pass before the last being filled to
\* the end of its block
BytesBefore(o, j) ==
  IF j = 1 THEN 0 ELSE (BLOCK_SIZE - (o % BLOCK_SIZE)) + (j - 2) * BLOCK_SIZE
InBlock(o, j) == IF j = 1 THEN o % BLOCK_SIZE ELSE 0

\* C26: no rollback on mid-span failure: when a write fails after it has
\* written back one or more blocks of its span, the data block of each page
\* it wrote holds that page's new bytes, no device block but those is
\* changed, and the size of the inode is not advanced, on the device or in
\* memory.
C26_NoRollback ==
  [][(/\ last'.op = "write" /\ last'.err # "" /\ nops' = nops + 1
      /\ WriteBackSeq(last'.tr, 1) # <<>>) =>
       LET tr  == last'.tr
           o   == last'.arg
           i   == last'.inum
           wbs == WriteBackSeq(tr, 1)
       IN /\ \A j \in 1 .. Len(wbs) :
               SubSeq(DevRead(dev', tr[wbs[j] - 1][2]), InBlock(o, j) + 1, BLOCK_SIZE)
                 = SubSeq(last'.data, BytesBefore(o, j) + 1,
                          BytesBefore(o, j) + BLOCK_SIZE - InBlock(o, j))
          /\ \A a \in DOMAIN dev \cup DOMAIN dev' :
               DevRead(dev', a) # DevRead(dev, a)
                 => a \in {tr[wbs[j] - 1][2] : j \in 1 .. Len(wbs)}
          /\ OnDevice(dev', i).size = OnDevice(dev, i).size
          /\ mem'[i].size \in {mem[i].size, OnDevice(dev', i).size}]_vars

\* C27: on every path by which start_server2 finishes (a shutdown message
\* was received, accept failed, or its socket could not be bound),
\* spdk_rs::event::app_stop has been called exactly once.
C27_AppStopOnce ==
  srv[2].st \in {"stopped", "returned"} => srv[2].app_stop = 1

====
